---- MODULE Spec2Model ----
(***************************************************************************)
(* Tic-tac-toe with a minimax computer player (monesonn/tic-tac-toe).      *)
(*                                                                         *)
(* Two source files are modelled: src/src/game.go, whose minimax carries   *)
(* alpha and beta, and src/unnamed/part_000, whose minimax is the plain    *)
(* search.  evaluate, getPlayerMove and the driving loop of main are the   *)
(* same in both files.                                                     *)
(*                                                                         *)
(* The board is the Go array [9]int, a function 0..8 -> {-1, 0, 1}.        *)
(* Go passes arrays by value: every minimax frame works on its own copy.   *)
(***************************************************************************)
EXTENDS Integers, FiniteSets, Sequences, TLC

VARIABLES
  variant,     \* which file's minimax the program was built with
  pc,          \* position of the program (see the actions)
  firstMover,  \* main: firstMover
  numBlanks,   \* main: numBlanks
  i,           \* main: loop index of `for i := range board`
  board,       \* main: board (also the input board of the harnesses)
  move,        \* getPlayerMove: move
  out,         \* the announcement printed before os.Exit(0)
  res,         \* the Strategy the last minimax call returned
  resPlain,    \* harness: the Strategy of part_000's minimax on the same input
  player,      \* harness: playerToMove handed to minimax
  depth,       \* harness: depth (emptyCellCount) handed to minimax
  evalOut,     \* harness: the value evaluate returned
  stack        \* frame machine: the minimax frames, the running one last

vars == <<variant, pc, firstMover, numBlanks, i, board, move, out, res,
          resPlain, player, depth, evalOut, stack>>

----------------------------------------------------------------------------
(* Program constants *)

EMPTY == 0
PLAYER == -1
AI == 1
INF == 2
Cells == 9

(* Bounds of the model *)

\* numeric console inputs range over -MaxInput .. MaxInput
MaxInput == 10
\* the search harness calls minimax on every board with at most MaxBlanks
\* empty cells
MaxBlanks == 5
\* the frame machine runs minimax on every legal board with at most
\* MaxFrameBlanks empty cells
MaxFrameBlanks == 3

----------------------------------------------------------------------------
(* Helpers of the program *)

min(a, b) == IF a > b THEN b ELSE a

\* max with its comparison turned round
maxInverted(a, b) == IF a > b THEN b ELSE a

max(a, b) == IF a > b THEN a ELSE b

Marks == {PLAYER, EMPTY, AI}

Boards == [0 .. Cells - 1 -> Marks]

EmptyBoard == [c \in 0 .. Cells - 1 |-> EMPTY]

\* the number of cells of b holding mark m
Count(b, m) == Cardinality({c \in 0 .. Cells - 1 : b[c] = m})

NumEmpty(b) == Count(b, EMPTY)

\* evaluate whose column test forgets its second comparison
\* (board[i] == board[i+3] alone)
evaluateTwoCells(b) ==
  IF b[0] = b[3] THEN b[0]
  ELSE IF b[1] = b[4] THEN b[1]
  ELSE IF b[2] = b[5] THEN b[2]
  ELSE IF b[0] = b[1] /\ b[0] = b[2] THEN b[0]
  ELSE IF b[3] = b[4] /\ b[3] = b[5] THEN b[3]
  ELSE IF b[6] = b[7] /\ b[6] = b[8] THEN b[6]
  ELSE IF b[0] = b[4] /\ b[0] = b[8] THEN b[0]
  ELSE IF b[2] = b[4] /\ b[2] = b[6] THEN b[2]
  ELSE 0

\* evaluate: the three column tests (i = 0, 1, 2), the three row tests
\* (i = 0, 3, 6), the left and the right diagonal, in this order; the first
\* line whose three cells are equal decides and its first cell is returned
\* (which is EMPTY = 0 when the three cells are empty).
evaluate(b) ==
  IF b[0] = b[3] /\ b[0] = b[6] THEN b[0]
  ELSE IF b[1] = b[4] /\ b[1] = b[7] THEN b[1]
  ELSE IF b[2] = b[5] /\ b[2] = b[8] THEN b[2]
  ELSE IF b[0] = b[1] /\ b[0] = b[2] THEN b[0]
  ELSE IF b[3] = b[4] /\ b[3] = b[5] THEN b[3]
  ELSE IF b[6] = b[7] /\ b[6] = b[8] THEN b[6]
  ELSE IF b[0] = b[4] /\ b[0] = b[8] THEN b[0]
  ELSE IF b[2] = b[4] /\ b[2] = b[6] THEN b[2]
  ELSE 0

----------------------------------------------------------------------------
(* minimax.  A Strategy is the struct {move, payoff}.  Each frame owns its *)
(* copy b of the board (Go passes the array by value), so a callee's writes *)
(* never reach the caller's b: after the recursive call the frame's board   *)
(* is still the board with the tentative mark, until board[i] = EMPTY.      *)

Strategy(m, p) == [move |-> m, payoff |-> p]

\* the seeds of bestVal given to the wrong players
SeedBestValSwapped(p) == IF p = AI THEN INF ELSE -INF

\* the seed of bestVal
SeedBestVal(p) == IF p = AI THEN -INF ELSE INF

\* board[i] = player
PlaceMark(b, c, p) == [b EXCEPT ![c] = p]

\* the reset of the tentative mark left out
ResetCellForgotten(b, c) == b

\* board[i] = EMPTY
ResetCell(b, c) == [b EXCEPT ![c] = EMPTY]

RECURSIVE minimax(_, _, _, _, _)
RECURSIVE minimaxLoop(_, _, _, _, _, _, _, _)

RECURSIVE minimaxLoopCutsOnOwnBound(_, _, _, _, _, _, _, _)

\* game.go's loop with the cut-off test against the frame's own bound (the
\* maximizer stops at bestVal >= alpha, the minimizer at bestVal <= beta)
minimaxLoopCutsOnOwnBound(b, d, alpha, beta, p, c, bestMove, bestVal) ==
  IF c > 8 THEN [move |-> bestMove, payoff |-> bestVal]
  ELSE IF b[c] # EMPTY
  THEN minimaxLoopCutsOnOwnBound(b, d, alpha, beta, p, c + 1, bestMove, bestVal)
  ELSE
    LET placed == [b EXCEPT ![c] = p]
        branchVal == minimax(placed, d - 1, alpha, beta, -p).payoff
        newBest == IF p = AI THEN max(branchVal, bestVal)
                             ELSE min(branchVal, bestVal)
    IN IF (p = AI /\ newBest >= alpha) \/ (p # AI /\ newBest <= beta)
       THEN [move |-> bestMove, payoff |-> newBest]
       ELSE IF newBest = branchVal
       THEN minimaxLoopCutsOnOwnBound([placed EXCEPT ![c] = EMPTY], d, alpha,
                                      beta, p, c + 1, c, newBest)
       ELSE minimaxLoopCutsOnOwnBound([placed EXCEPT ![c] = EMPTY], d, alpha,
                                      beta, p, c + 1, bestMove, newBest)

\* src/src/game.go: the loop `for i := range board` of minimax from cell c on,
\* b being the frame's board at the top of the pass for cell c.
minimaxLoop(b, d, alpha, beta, p, c, bestMove, bestVal) ==
  IF c > 8 THEN [move |-> bestMove, payoff |-> bestVal]
  ELSE IF b[c] # EMPTY
  THEN minimaxLoop(b, d, alpha, beta, p, c + 1, bestMove, bestVal)
  ELSE
    LET placed == [b EXCEPT ![c] = p]
        branchVal == minimax(placed, d - 1, alpha, beta, -p).payoff
    IN IF p = AI
       THEN LET newBest == max(branchVal, bestVal)
            IN IF newBest < branchVal
               THEN LET newAlpha == max(alpha, newBest)
                    IN IF newAlpha >= beta
                       THEN [move |-> bestMove, payoff |-> newBest]
                       ELSE IF newBest = branchVal
                       THEN minimaxLoop([placed EXCEPT ![c] = EMPTY], d, newAlpha, beta,
                                        p, c + 1, c, newBest)
                       ELSE minimaxLoop([placed EXCEPT ![c] = EMPTY], d, newAlpha, beta,
                                        p, c + 1, bestMove, newBest)
               ELSE IF newBest = branchVal
               THEN minimaxLoop([placed EXCEPT ![c] = EMPTY], d, alpha, beta, p, c + 1,
                                c, newBest)
               ELSE minimaxLoop([placed EXCEPT ![c] = EMPTY], d, alpha, beta, p, c + 1,
                                bestMove, newBest)
       ELSE LET newBest == min(branchVal, bestVal)
            IN IF newBest > branchVal
               THEN LET newBeta == min(beta, newBest)
                    IN IF newBeta <= alpha
                       THEN [move |-> bestMove, payoff |-> newBest]
                       ELSE IF newBest = branchVal
                       THEN minimaxLoop([placed EXCEPT ![c] = EMPTY], d, alpha, newBeta,
                                        p, c + 1, c, newBest)
                       ELSE minimaxLoop([placed EXCEPT ![c] = EMPTY], d, alpha, newBeta,
                                        p, c + 1, bestMove, newBest)
               ELSE IF newBest = branchVal
               THEN minimaxLoop([placed EXCEPT ![c] = EMPTY], d, alpha, beta, p, c + 1,
                                c, newBest)
               ELSE minimaxLoop([placed EXCEPT ![c] = EMPTY], d, alpha, beta, p, c + 1,
                                bestMove, newBest)

\* src/src/game.go: minimax(board, depth, alpha, beta, player)
minimax(b, d, alpha, beta, p) ==
  LET evaluation == evaluate(b)
  IN IF evaluation # 0 THEN [move |-> -1, payoff |-> evaluation]
     ELSE IF d = 0 THEN [move |-> -1, payoff |-> 0]
     ELSE minimaxLoop(b, d, alpha, beta, p, 0, -1, SeedBestVal(p))

RECURSIVE minimaxPlain(_, _, _)
RECURSIVE minimaxPlainLoop(_, _, _, _, _, _)

RECURSIVE minimaxPlainLoopFirstTie(_, _, _, _, _, _)

\* part_000's loop recording the cell only when bestVal changed (the first of
\* the cells that tie is kept)
minimaxPlainLoopFirstTie(b, p, d, c, bestMove, bestVal) ==
  IF c > 8 THEN [move |-> bestMove, payoff |-> bestVal]
  ELSE IF b[c] # EMPTY
  THEN minimaxPlainLoopFirstTie(b, p, d, c + 1, bestMove, bestVal)
  ELSE
    LET placed == [b EXCEPT ![c] = p]
        branchVal == minimaxPlain(placed, -p, d - 1).payoff
        newBest == IF p = AI THEN max(branchVal, bestVal)
                             ELSE min(branchVal, bestVal)
    IN IF newBest # bestVal
       THEN minimaxPlainLoopFirstTie([placed EXCEPT ![c] = EMPTY], p, d, c + 1, c,
                                     newBest)
       ELSE minimaxPlainLoopFirstTie([placed EXCEPT ![c] = EMPTY], p, d, c + 1,
                                     bestMove, newBest)

\* src/unnamed/part_000: the loop `for i := 0; i < 9; i++` of minimax from
\* cell c on.
minimaxPlainLoop(b, p, d, c, bestMove, bestVal) ==
  IF c > 8 THEN [move |-> bestMove, payoff |-> bestVal]
  ELSE IF b[c] # EMPTY
  THEN minimaxPlainLoop(b, p, d, c + 1, bestMove, bestVal)
  ELSE
    LET placed == [b EXCEPT ![c] = p]
        branchVal == minimaxPlain(placed, -p, d - 1).payoff
        newBest == IF p = AI THEN max(branchVal, bestVal)
                             ELSE min(branchVal, bestVal)
    IN IF newBest = branchVal
       THEN minimaxPlainLoop([placed EXCEPT ![c] = EMPTY], p, d, c + 1, c, newBest)
       ELSE minimaxPlainLoop([placed EXCEPT ![c] = EMPTY], p, d, c + 1, bestMove, newBest)

\* src/unnamed/part_000: minimax(board, player, depth)
minimaxPlain(b, p, d) ==
  LET evaluation == evaluate(b)
  IN IF evaluation # 0 THEN [move |-> -1, payoff |-> evaluation]
     ELSE IF d = 0 THEN [move |-> -1, payoff |-> 0]
     ELSE minimaxPlainLoop(b, p, d, 0, -1, SeedBestVal(p))

\* the call main makes for the Ai's turn, in the file the program was built
\* from
Search(v, b, blanks) ==
  IF v = "alphabeta" THEN minimax(b, blanks, -INF, INF, AI)
  ELSE minimaxPlain(b, AI, blanks)

NoStrategy == Strategy(-1, 0)

----------------------------------------------------------------------------
(* The program: main and getPlayerMove *)

Variants == {"alphabeta", "plain"}

Init ==
  /\ variant \in Variants
  /\ pc = "ask"
  /\ firstMover = 0
  /\ numBlanks = 9
  /\ i = 0
  /\ board = EmptyBoard
  /\ move = 0
  /\ out = ""
  /\ res = NoStrategy
  /\ resPlain = NoStrategy
  /\ player = AI
  /\ depth = 0
  /\ evalOut = 0
  /\ stack = <<>>

harnessVars == <<resPlain, player, depth, evalOut, stack>>

\* main: the prompt loop "Would you like to go first or second? [1 / 2]".
\* Scanf stores a number; the loop ends when it is 1 or 2, and then
\* firstMover %= 2.
AskFirstMover ==
  /\ pc = "ask"
  /\ \E n \in -MaxInput .. MaxInput :
       IF n # 1 /\ n # 2
       THEN firstMover' = n /\ pc' = "ask"
       ELSE firstMover' = n % 2 /\ pc' = "turn"
  /\ UNCHANGED <<variant, numBlanks, i, board, move, out, res, harnessVars>>

\* the loop of main leaving one pass early: "Draw." after the eighth pass
FinishPassDrawEarly(b) ==
  IF evaluate(b) # 0
  THEN /\ out' = (IF evaluate(b) = AI THEN "AI win." ELSE "HUMAN win.")
       /\ pc' = "exit"
       /\ UNCHANGED <<numBlanks, i>>
  ELSE /\ numBlanks' = numBlanks - 1
       /\ i' = i + 1
       /\ IF i + 1 < Cells - 1
          THEN pc' = "turn" /\ out' = out
          ELSE pc' = "exit" /\ out' = "Draw."

\* the loop of main without its numBlanks--
FinishPassKeepsBlanks(b) ==
  IF evaluate(b) # 0
  THEN /\ out' = (IF evaluate(b) = AI THEN "AI win." ELSE "HUMAN win.")
       /\ pc' = "exit"
       /\ UNCHANGED <<numBlanks, i>>
  ELSE /\ numBlanks' = numBlanks
       /\ i' = i + 1
       /\ IF i + 1 < Cells
          THEN pc' = "turn" /\ out' = out
          ELSE pc' = "exit" /\ out' = "Draw."

\* main: what follows the move in one pass of the loop, applied to the board
\* b the move produced: the evaluate test with its announcement and
\* os.Exit(0), else numBlanks-- and the next pass; after the ninth pass
\* "Draw." and os.Exit(0).
FinishPass(b) ==
  IF evaluate(b) # 0
  THEN /\ out' = (IF evaluate(b) = AI THEN "AI win." ELSE "HUMAN win.")
       /\ pc' = "exit"
       /\ UNCHANGED <<numBlanks, i>>
  ELSE /\ numBlanks' = numBlanks - 1
       /\ i' = i + 1
       /\ IF i + 1 < Cells
          THEN pc' = "turn" /\ out' = out
          ELSE pc' = "exit" /\ out' = "Draw."

\* main: a pass of the loop in which the Ai moves.  board[aiMove] = AI
\* panics when aiMove is not an index of the array.
AiTurn ==
  /\ pc = "turn"
  /\ (firstMover + i) % 2 # 1
  /\ \E r \in {Search(variant, board, numBlanks)} :
       /\ res' = r
       /\ IF r.move \in 0 .. Cells - 1
          THEN /\ board' = PlaceMark(board, r.move, AI)
               /\ FinishPass(PlaceMark(board, r.move, AI))
          ELSE /\ pc' = "panic"
               /\ UNCHANGED <<board, numBlanks, i, out>>
  /\ UNCHANGED <<variant, firstMover, move, harnessVars>>

\* main: a pass of the loop in which the human moves, up to the first
\* Scanf of getPlayerMove (`var move int` is 0).
PromptPlayer ==
  /\ pc = "turn"
  /\ (firstMover + i) % 2 = 1
  /\ pc' = "input"
  /\ move' = 0
  /\ UNCHANGED <<variant, firstMover, numBlanks, i, board, out, res, harnessVars>>

\* getPlayerMove from a Scanf that left m in move: the loop condition
\* board[move-1] != EMPTY || move < 1 || move > 9 indexes the array first,
\* which panics when move-1 is not in 0..8; an occupied cell prints
\* "Invalid. " and reads again; an empty cell takes the mark and the pass of
\* main's loop is finished.
Scanned(m) ==
  /\ move' = m
  /\ IF m - 1 \notin 0 .. Cells - 1
     THEN pc' = "panic" /\ UNCHANGED <<board, numBlanks, i, out>>
     ELSE IF board[m - 1] # EMPTY \/ m < 1 \/ m > 9
     THEN pc' = "input" /\ UNCHANGED <<board, numBlanks, i, out>>
     ELSE /\ board' = PlaceMark(board, m - 1, PLAYER)
          /\ FinishPass(PlaceMark(board, m - 1, PLAYER))

\* getPlayerMove: Scanf("%d", &move) reads a number
ScanNumber ==
  /\ pc = "input"
  /\ \E n \in -MaxInput .. MaxInput : Scanned(n)
  /\ UNCHANGED <<variant, firstMover, res, harnessVars>>

\* getPlayerMove: Scanf("%d", &move) fails on a non-numeric entry and leaves
\* move as it was
ScanGarbage ==
  /\ pc = "input"
  /\ Scanned(move)
  /\ UNCHANGED <<variant, firstMover, res, harnessVars>>

Next ==
  \/ AskFirstMover
  \/ AiTurn
  \/ PromptPlayer
  \/ ScanNumber
  \/ ScanGarbage

Spec == Init /\ [][Next]_vars

mainVars == <<firstMover, numBlanks, i, move, out>>

----------------------------------------------------------------------------
(* evaluate applied to every 9-cell board *)

InitEval ==
  /\ variant = "none"
  /\ pc = "call"
  /\ firstMover = 0
  /\ numBlanks = 9
  /\ i = 0
  /\ board \in Boards
  /\ move = 0
  /\ out = ""
  /\ res = NoStrategy
  /\ resPlain = NoStrategy
  /\ player = AI
  /\ depth = 0
  /\ evalOut = 0
  /\ stack = <<>>

CallEvaluate ==
  /\ pc = "call"
  /\ evalOut' = evaluate(board)
  /\ pc' = "returned"
  /\ UNCHANGED <<variant, mainVars, board, res, resPlain, player, depth, stack>>

NextEval == CallEvaluate

SpecEval == InitEval /\ [][NextEval]_vars

----------------------------------------------------------------------------
(* minimax of both files applied to the same board, player and depth *)

\* the board of the end-to-end scenario: Ai on 0 and 1, Human on 3 and 4
ScenarioBoard ==
  [c \in 0 .. Cells - 1 |->
     IF c \in {0, 1} THEN AI ELSE IF c \in {3, 4} THEN PLAYER ELSE EMPTY]

\* the scenario's stated count of empty cells, one less than the board has
ScenarioBlanks == NumEmpty(ScenarioBoard) - 1

SearchBoards == {b \in Boards : NumEmpty(b) <= MaxBlanks} \cup {ScenarioBoard}

InitSearch ==
  /\ variant = "none"
  /\ pc = "call"
  /\ firstMover = 0
  /\ numBlanks = 9
  /\ i = 0
  /\ board \in SearchBoards
  /\ move = 0
  /\ out = ""
  /\ res = NoStrategy
  /\ resPlain = NoStrategy
  /\ player \in {AI, PLAYER}
  /\ depth \in {NumEmpty(board)}
                 \cup (IF board = ScenarioBoard THEN {ScenarioBlanks} ELSE {})
  /\ evalOut = 0
  /\ stack = <<>>

CallMinimax ==
  /\ pc = "call"
  /\ res' = minimax(board, depth, -INF, INF, player)
  /\ resPlain' = minimaxPlain(board, player, depth)
  /\ pc' = "returned"
  /\ UNCHANGED <<variant, mainVars, board, player, depth, evalOut, stack>>

NextSearch == CallMinimax

SpecSearch == InitSearch /\ [][NextSearch]_vars

----------------------------------------------------------------------------
(* minimax as a machine of frames.  A frame holds the locals of one call:  *)
(* its own copy b of the board, depth d, alpha, beta, player p, the loop   *)
(* index c, bestMove, bestVal; entry is the value of b when the call was   *)
(* made.  at is "loop" at the top of a pass of the loop, "wait" while the  *)
(* recursive call of the pass runs, "done" once the frame has its result   *)
(* ret.  part_000's frames have no alpha and beta; the fields keep their   *)
(* initial values there.                                                   *)

\* the call with its base cases in the other order: depth == 0 is tested
\* before the evaluation
NewFrameDepthFirst(b, d, alpha, beta, p) ==
  LET evaluation == evaluate(b)
      base == [entry |-> b, b |-> b, d |-> d, alpha |-> alpha, beta |-> beta,
               p |-> p, c |-> 0, bestMove |-> -1, bestVal |-> 0]
  IN IF d = 0
     THEN base @@ [at |-> "done", ret |-> Strategy(-1, 0)]
     ELSE IF evaluation # 0
     THEN base @@ [at |-> "done", ret |-> Strategy(-1, evaluation)]
     ELSE [base EXCEPT !.bestVal = SeedBestVal(p)]
            @@ [at |-> "loop", ret |-> NoStrategy]

\* a call of minimax up to its loop: the two base cases, else the seeds of
\* bestMove and bestVal.  The array argument arrives as a copy.
NewFrame(b, d, alpha, beta, p) ==
  LET evaluation == evaluate(b)
      base == [entry |-> b, b |-> b, d |-> d, alpha |-> alpha, beta |-> beta,
               p |-> p, c |-> 0, bestMove |-> -1, bestVal |-> 0]
  IN IF evaluation # 0
     THEN base @@ [at |-> "done", ret |-> Strategy(-1, evaluation)]
     ELSE IF d = 0
     THEN base @@ [at |-> "done", ret |-> Strategy(-1, 0)]
     ELSE [base EXCEPT !.bestVal = SeedBestVal(p)]
            @@ [at |-> "loop", ret |-> NoStrategy]

\* the first cell at or after c that passes `if board[i] == EMPTY`, or 9
NextEmpty(b, c) ==
  IF \E k \in c .. Cells - 1 : b[k] = EMPTY
  THEN CHOOSE k \in c .. Cells - 1 :
         b[k] = EMPTY /\ \A j \in c .. k - 1 : b[j] # EMPTY
  ELSE Cells

\* the frame after a branch with the loop index left where it was: the pass
\* for the same cell is made again
AfterBranchStaysOnCell(v, f, branchVal) ==
  LET newBest == IF f.p = AI THEN max(branchVal, f.bestVal)
                             ELSE min(branchVal, f.bestVal)
  IN [f EXCEPT !.bestVal = newBest,
               !.b = ResetCell(f.b, f.c),
               !.bestMove = IF newBest = branchVal THEN f.c ELSE f.bestMove,
               !.at = "loop"]

\* the frame after a branch with the guard of the alpha-beta step taken
\* against the bestVal held before the update
AfterBranchGuardBeforeUpdate(v, f, branchVal) ==
  LET newBest == IF f.p = AI THEN max(branchVal, f.bestVal)
                             ELSE min(branchVal, f.bestVal)
      guard == /\ v = "alphabeta"
               /\ IF f.p = AI THEN f.bestVal < branchVal ELSE f.bestVal > branchVal
      newAlpha == IF guard /\ f.p = AI THEN max(f.alpha, newBest) ELSE f.alpha
      newBeta == IF guard /\ f.p # AI THEN min(f.beta, newBest) ELSE f.beta
      g == [f EXCEPT !.bestVal = newBest, !.alpha = newAlpha, !.beta = newBeta]
  IN IF guard /\ (IF f.p = AI THEN newAlpha >= newBeta ELSE newBeta <= newAlpha)
     THEN [g EXCEPT !.at = "done", !.ret = Strategy(f.bestMove, newBest)]
     ELSE [g EXCEPT !.b = ResetCell(f.b, f.c),
                    !.bestMove = IF newBest = branchVal THEN f.c ELSE f.bestMove,
                    !.c = f.c + 1,
                    !.at = "loop"]

\* the frame f after the recursive call of its pass returned branchVal:
\* the update of bestVal, in game.go the guarded update of alpha or beta and
\* the break, then board[i] = EMPTY and the record of bestMove.
AfterBranch(v, f, branchVal) ==
  LET newBest == IF f.p = AI THEN max(branchVal, f.bestVal)
                             ELSE min(branchVal, f.bestVal)
      guard == /\ v = "alphabeta"
               /\ IF f.p = AI THEN newBest < branchVal ELSE newBest > branchVal
      newAlpha == IF guard /\ f.p = AI THEN max(f.alpha, newBest) ELSE f.alpha
      newBeta == IF guard /\ f.p # AI THEN min(f.beta, newBest) ELSE f.beta
      g == [f EXCEPT !.bestVal = newBest, !.alpha = newAlpha, !.beta = newBeta]
  IN IF guard /\ (IF f.p = AI THEN newAlpha >= newBeta ELSE newBeta <= newAlpha)
     THEN [g EXCEPT !.at = "done", !.ret = Strategy(f.bestMove, newBest)]
     ELSE [g EXCEPT !.b = ResetCell(f.b, f.c),
                    !.bestMove = IF newBest = branchVal THEN f.c ELSE f.bestMove,
                    !.c = f.c + 1,
                    !.at = "loop"]

FrameBoards ==
  {b \in Boards : /\ NumEmpty(b) <= MaxFrameBlanks
                  /\ Count(b, AI) - Count(b, PLAYER) \in {-1, 0, 1}}

InitFrames ==
  /\ variant \in Variants
  /\ pc = "call"
  /\ firstMover = 0
  /\ numBlanks = 9
  /\ i = 0
  /\ board \in FrameBoards
  /\ move = 0
  /\ out = ""
  /\ res = NoStrategy
  /\ resPlain = NoStrategy
  /\ player \in {p \in {AI, PLAYER} : Count(board, -p) - Count(board, p) \in {0, 1}}
  /\ depth = NumEmpty(board)
  /\ evalOut = 0
  /\ stack = <<>>

frameFixed == <<variant, mainVars, board, resPlain, player, depth, evalOut>>

\* the caller (main) calls minimax(board, depth, -INF, +INF, player)
FrameCall ==
  /\ pc = "call"
  /\ stack' = <<NewFrame(board, depth, -INF, INF, player)>>
  /\ pc' = "run"
  /\ UNCHANGED <<frameFixed, res>>

\* the running frame goes on with its loop: it skips the occupied cells; at
\* the next empty cell it places its mark and calls minimax for the opponent
\* with depth-1; with no cell left it returns Strategy{bestMove, bestVal}.
FrameBranch ==
  /\ pc = "run"
  /\ stack[Len(stack)].at = "loop"
  /\ LET f == stack[Len(stack)]
         c == NextEmpty(f.b, f.c)
     IN IF c > Cells - 1
        THEN stack' = [stack EXCEPT ![Len(stack)] =
                         [f EXCEPT !.c = c, !.at = "done",
                                   !.ret = Strategy(f.bestMove, f.bestVal)]]
        ELSE stack' = Append(
                        [stack EXCEPT ![Len(stack)] =
                           [f EXCEPT !.c = c, !.b = PlaceMark(f.b, c, f.p),
                                     !.at = "wait"]],
                        NewFrame(PlaceMark(f.b, c, f.p), f.d - 1, f.alpha,
                                 f.beta, -f.p))
  /\ UNCHANGED <<pc, frameFixed, res>>

\* the running frame returns to the frame that called it
FrameReturn ==
  /\ pc = "run"
  /\ Len(stack) > 1
  /\ stack[Len(stack)].at = "done"
  /\ stack' = [SubSeq(stack, 1, Len(stack) - 1) EXCEPT ![Len(stack) - 1] =
                 AfterBranch(variant, stack[Len(stack) - 1],
                             stack[Len(stack)].ret.payoff)]
  /\ UNCHANGED <<pc, frameFixed, res>>

\* the outermost frame returns to the caller
FrameReturnTop ==
  /\ pc = "run"
  /\ Len(stack) = 1
  /\ stack[1].at = "done"
  /\ res' = stack[1].ret
  /\ stack' = <<>>
  /\ pc' = "returned"
  /\ UNCHANGED frameFixed

NextFrames ==
  \/ FrameCall
  \/ FrameBranch
  \/ FrameReturn
  \/ FrameReturnTop

SpecFrames == InitFrames /\ [][NextFrames]_vars

\* the program is one thread that runs without suspension: a frame that can
\* take its next step takes it
SpecFramesFair == SpecFrames /\ WF_vars(NextFrames)

\* the frame machine returns what the operators minimax and minimaxPlain
\* compute
FramesAgree ==
  pc = "returned" =>
    res = IF variant = "alphabeta" THEN minimax(board, depth, -INF, INF, player)
          ELSE minimaxPlain(board, player, depth)

----------------------------------------------------------------------------
(* Every invocation of minimax: the program, whose loop makes the top-level *)
(* calls, side by side with the frame machine, which makes the recursive    *)
(* ones.  The two run apart: the program's pc is "ask", "turn", "input",    *)
(* "exit" or "panic", the frame machine's is "call", "run" or "returned".   *)

InitCalls == Init \/ InitFrames

NextCalls == Next \/ NextFrames

SpecCalls == InitCalls /\ [][NextCalls]_vars

----------------------------------------------------------------------------
(* The vocabulary of the claims *)

Lines ==
  {{0, 3, 6}, {1, 4, 7}, {2, 5, 8}, {0, 1, 2}, {3, 4, 5}, {6, 7, 8},
   {0, 4, 8}, {2, 4, 6}}

\* the marks m fill a row, a column or a diagonal of b
HoldsLine(b, m) == \E l \in Lines : \A c \in l : b[c] = m

AnyLine(b) == HoldsLine(b, AI) \/ HoldsLine(b, PLAYER)

\* b with p to move arises by legal alternating play from the empty board with
\* no complete line so far: no line is complete (so none was earlier), and
\* the opponent has made as many moves as p or one more
LegalPosition(b, p) ==
  /\ ~AnyLine(b)
  /\ Count(b, -p) - Count(b, p) \in {0, 1}

SetMax(S) == CHOOSE x \in S : \A y \in S : y <= x

SetMin(S) == CHOOSE x \in S : \A y \in S : x <= y

RECURSIVE GameValue(_, _)
\* the game-theoretic value of b with p to move: play stops at the first
\* board on which a player's three marks fill a line
GameValue(b, p) ==
  IF HoldsLine(b, AI) THEN 1
  ELSE IF HoldsLine(b, PLAYER) THEN -1
  ELSE IF NumEmpty(b) = 0 THEN 0
  ELSE LET vals == {GameValue([b EXCEPT ![c] = p], -p) :
                      c \in {k \in 0 .. Cells - 1 : b[k] = EMPTY}}
       IN IF p = AI THEN SetMax(vals) ELSE SetMin(vals)

\* the harness called minimax with depth equal to the number of empty cells
WellFormedCall == pc = "returned" /\ depth = NumEmpty(board)

----------------------------------------------------------------------------
(* The claims *)

\* C1: on every position reachable by legal alternating play with no complete
\* line, called with depth = number of empty cells, minimax (of both files)
\* returns the game-theoretic value of the position.
C1_MinimaxReturnsGameValue ==
  (WellFormedCall /\ LegalPosition(board, player)) =>
    /\ res.payoff = GameValue(board, player)
    /\ resPlain.payoff = GameValue(board, player)

\* C2: evaluate detects every completed line: on a board where exactly one
\* player's marks fill a line it returns that player's mark, and it returns 0
\* only when no line is filled by three equal non-empty marks.
C2_EvaluateDetectsEveryLine ==
  pc = "returned" =>
    /\ \A m \in {AI, PLAYER} :
         (HoldsLine(board, m) /\ ~HoldsLine(board, -m)) => evalOut = m
    /\ evalOut = 0 => ~AnyLine(board)

\* C3: evaluate returns a value in {-1, 0, +1}, and a non-zero value v only
\* when the marks v fill a row, a column or a diagonal.
C3_EvaluateSound ==
  pc = "returned" =>
    /\ evalOut \in {-1, 0, 1}
    /\ evalOut # 0 => HoldsLine(board, evalOut)

C3_Witness ==
  /\ pc = "returned"
  /\ evalOut = PLAYER
  /\ HoldsLine(board, PLAYER)
  /\ NumEmpty(board) = 3

\* the first Ai turn of a game the Ai opens: res is what minimax returned on
\* the empty board with numBlanks = 9
AfterOpeningSearch == pc = "turn" /\ firstMover = 0 /\ i = 1

\* C4: on the empty board with Ai to move and emptyCellCount 9, minimax of
\* either file returns payoff 0.
C4_EmptyBoardIsDraw == AfterOpeningSearch => res.payoff = 0

C4_Witness ==
  /\ AfterOpeningSearch
  /\ variant = "alphabeta"
  /\ NumEmpty(board) = 8
  /\ res.payoff = 0

\* C5: board isolation of the search: the caller's board stays the board of
\* the call; every pass of every frame starts from the frame's entry board,
\* and while the call of a pass runs the frame's board is the entry board
\* plus the one tentative mark of the pass, which is the board the callee was
\* entered with.
C5_BoardIsolation ==
  /\ pc = "run" => stack[1].entry = board
  /\ \A k \in 1 .. Len(stack) :
       /\ stack[k].at = "loop" => stack[k].b = stack[k].entry
       /\ stack[k].at = "wait" =>
            /\ stack[k].entry[stack[k].c] = EMPTY
            /\ stack[k].b = [stack[k].entry EXCEPT ![stack[k].c] = stack[k].p]
            /\ stack[k + 1].entry = stack[k].b

\* a frame two calls deep is about to start a pass after an earlier pass of
\* it returned
C5_Witness ==
  /\ pc = "run"
  /\ Len(stack) = 3
  /\ stack[3].at = "loop"
  /\ stack[3].bestMove # -1
  /\ stack[3].c <= Cells - 1
  /\ variant = "alphabeta"

\* C6: for every board and player, with depth = number of empty cells,
\* game.go's minimax called with alpha = -2 and beta = +2 returns the payoff
\* part_000's minimax returns.
C6_PruningKeepsPayoff == WellFormedCall => res.payoff = resPlain.payoff

C6_Witness ==
  /\ WellFormedCall
  /\ depth = MaxBlanks
  /\ evaluate(board) = 0
  /\ res.payoff = 1
  /\ resPlain.payoff = 1
  /\ player = PLAYER

\* the call of the end-to-end scenario has returned
ScenarioCall ==
  /\ pc = "returned"
  /\ board = ScenarioBoard
  /\ player = AI
  /\ depth = ScenarioBlanks

\* C7: on [Ai,Ai,Empty, Human,Human,Empty, Empty,Empty,Empty] with Ai to move
\* and emptyCellCount 4, minimax of either file returns move 2 and payoff +1.
C7_ScenarioTopRow ==
  ScenarioCall =>
    /\ res = Strategy(2, 1)
    /\ resPlain = Strategy(2, 1)

C7_Witness == ScenarioCall /\ res.move = 2 /\ depth = 4 /\ NumEmpty(board) = 5

\* the call was made on a board with one empty cell and no winner, depth 1
LastCellCall ==
  /\ pc = "returned"
  /\ NumEmpty(board) = 1
  /\ depth = 1
  /\ evaluate(board) = 0

\* C8: on a board with exactly one empty cell c on which evaluate returns 0,
\* for either player p and emptyCellCount 1, minimax of either file returns
\* move c and payoff evaluate(board with p's mark on c).
C8_LastCell ==
  LastCellCall =>
    \A c \in 0 .. Cells - 1 :
      board[c] = EMPTY =>
        /\ res = Strategy(c, evaluate([board EXCEPT ![c] = player]))
        /\ resPlain = Strategy(c, evaluate([board EXCEPT ![c] = player]))

C8_Witness ==
  /\ LastCellCall
  /\ player = PLAYER
  /\ res.payoff = -1
  /\ res.move = 4

\* C9: in getPlayerMove every invalid entry leads to a re-prompt with the
\* board unchanged and never to a program error; the step only ends by
\* placing the Human mark on an empty cell move-1 in 0..8.
C9_InvalidInputReprompts ==
  [][pc = "input" =>
       \/ pc' = "input" /\ board' = board
       \/ /\ pc' \in {"turn", "exit"}
          /\ move' \in 1 .. 9
          /\ board[move' - 1] = EMPTY
          /\ board' = [board EXCEPT ![move' - 1] = PLAYER]]_vars

\* C10: the game stops at the half-move on which a player first completes a
\* line: the loop goes on to another move only on a board with no complete
\* line, and the winner announced is the one player who holds a line.
C10_StopsAtFirstLine ==
  /\ pc \in {"turn", "input"} => ~AnyLine(board)
  /\ out = "AI win." => HoldsLine(board, AI) /\ ~HoldsLine(board, PLAYER)
  /\ out = "HUMAN win." => HoldsLine(board, PLAYER) /\ ~HoldsLine(board, AI)

\* the boards with no empty cell
FullBoards == [0 .. Cells - 1 -> {PLAYER, AI}]

\* evaluate returns 0 on every full board on which no line is complete
FullBoardsWithoutLineEvaluateZero ==
  \A b \in FullBoards : ~AnyLine(b) => evaluate(b) = 0

\* C11: on every full board with no winning line evaluate returns 0, and the
\* driving loop announces "Draw." only when the board is full and neither
\* player holds a complete row, column or diagonal.
C11_DrawOnlyOnFullBoardWithoutLine ==
  /\ FullBoardsWithoutLineEvaluateZero
  /\ out = "Draw." =>
       /\ NumEmpty(board) = 0
       /\ ~AnyLine(board)
       /\ evaluate(board) = 0

C11_Witness ==
  /\ pc = "exit"
  /\ out = "Draw."
  /\ NumEmpty(board) = 0
  /\ ~AnyLine(board)
  /\ firstMover = 1

\* the harness called minimax on a position that is not terminal
NonTerminalCall == WellFormedCall /\ evaluate(board) = 0 /\ depth > 0

\* the payoff game.go's minimax returns for the branch of cell c of the call
BranchPayoff(c) ==
  minimax(PlaceMark(board, c, player), depth - 1, -INF, INF, -player).payoff

\* the payoff part_000's minimax returns for the branch of cell c of the call
BranchPayoffPlain(c) ==
  minimaxPlain(PlaceMark(board, c, player), -player, depth - 1).payoff

\* the highest cell of S, -1 when there is none
LastCell(S) == IF S = {} THEN -1 ELSE SetMax(S)

\* C12: at every non-terminal position, called with depth = number of empty
\* cells, the move minimax (of both files) returns is the highest-index empty
\* cell whose branch payoff equals the returned payoff.
C12_TieBreakLast ==
  NonTerminalCall =>
    /\ res.move = LastCell({c \in 0 .. Cells - 1 :
                              board[c] = EMPTY /\ BranchPayoff(c) = res.payoff})
    /\ resPlain.move = LastCell({c \in 0 .. Cells - 1 :
                              board[c] = EMPTY /\ BranchPayoffPlain(c) = resPlain.payoff})

\* two cells tie for the returned payoff and the higher one is returned
C12_Witness ==
  /\ NonTerminalCall
  /\ depth = 4
  /\ player = AI
  /\ res.move = resPlain.move
  /\ \E c \in 0 .. Cells - 1 :
       /\ c < res.move
       /\ board[c] = EMPTY
       /\ BranchPayoff(c) = res.payoff
       /\ BranchPayoffPlain(c) = res.payoff

\* in game.go's minimax the running frame is about to return to the frame
\* that called it
ReturningToCaller ==
  /\ pc = "run"
  /\ variant = "alphabeta"
  /\ Len(stack) > 1
  /\ stack[Len(stack)].at = "done"

\* C13: alpha-beta step of game.go: when a branch's payoff exceeds the bestVal
\* a maximizer frame held before the branch, alpha becomes max(alpha, new
\* bestVal), and if then alpha >= beta the frame explores no further cell;
\* symmetrically a minimizer frame lowers beta when the branch's payoff is
\* below its previous bestVal and stops when beta <= alpha.
C13_AlphaBetaStep ==
  [][ReturningToCaller =>
       LET f == stack[Len(stack) - 1]
           branchVal == stack[Len(stack)].ret.payoff
           g == stack'[Len(stack')]
       IN /\ (f.p = AI /\ branchVal > f.bestVal) =>
               /\ g.alpha = max(f.alpha, max(branchVal, f.bestVal))
               /\ g.alpha >= g.beta => g.at = "done"
          /\ (f.p = PLAYER /\ branchVal < f.bestVal) =>
               /\ g.beta = min(f.beta, min(branchVal, f.bestVal))
               /\ g.beta <= g.alpha => g.at = "done"]_vars

\* C14: base cases of minimax, in this order: when evaluate of the board of
\* the call is non-zero the result is (-1, that value) whatever the depth
\* (a full board with a complete line gives the winner's payoff, not 0);
\* otherwise when depth = 0 the result is (-1, 0); in both cases the frame
\* explores no cell: it places no mark and makes no call.
C14_BaseCases ==
  /\ \A k \in 1 .. Len(stack) :
       LET f == stack[k]
           terminal == /\ f.at = "done"
                       /\ k = Len(stack)
                       /\ f.b = f.entry
                       /\ f.c = 0
                       /\ f.bestMove = -1
       IN /\ evaluate(f.entry) # 0 =>
               terminal /\ f.ret = Strategy(-1, evaluate(f.entry))
          /\ (evaluate(f.entry) = 0 /\ f.d = 0) =>
               terminal /\ f.ret = Strategy(-1, 0)
  /\ pc = "returned" =>
       /\ evaluate(board) # 0 => res = Strategy(-1, evaluate(board))
       /\ (evaluate(board) = 0 /\ depth = 0) => res = Strategy(-1, 0)

\* a call on a full board with a complete line returned the winner's payoff
C14_Witness ==
  /\ pc = "returned"
  /\ NumEmpty(board) = 0
  /\ depth = 0
  /\ evaluate(board) = AI
  /\ res = Strategy(-1, AI)
  /\ variant = "plain"

\* C15: at every invocation of minimax the depth argument is the number of
\* empty cells of the board of the call: numBlanks is the number of empty
\* cells of main's board at the start of every pass of the driving loop (it is
\* the depth of the top-level call of the pass), and every frame's depth is
\* the number of empty cells of the board it was entered with.
C15_DepthIsEmptyCount ==
  /\ pc \in {"ask", "turn", "input"} => numBlanks = NumEmpty(board)
  /\ \A k \in 1 .. Len(stack) :
       /\ stack[k].d = NumEmpty(stack[k].entry)
       /\ k > 1 => stack[k].d = stack[k - 1].d - 1

\* the fifth pass of the loop is about to call minimax for the Ai
C15_Witness ==
  /\ pc = "turn"
  /\ firstMover = 0
  /\ i = 4
  /\ numBlanks = 5
  /\ NumEmpty(board) = 5

\* the frames nest no deeper than the depth of the top-level call, which is
\* at most 9: each level's depth is one below its caller's and never below 0
NestingWithinDepth ==
  pc = "run" =>
    /\ depth = NumEmpty(board)
    /\ depth <= Cells
    /\ Len(stack) - 1 <= depth
    /\ Len(stack) - 1 <= 9
    /\ \A k \in 1 .. Len(stack) :
         /\ stack[k].d = depth - (k - 1)
         /\ stack[k].d >= 0

\* C16: every call of minimax with depth = number of empty cells of its board
\* terminates, and the recursive calls nest at most 9 levels below the
\* top-level call: the depth falls by 1 per level and never below 0.
C16_SearchTerminates ==
  /\ []NestingWithinDepth
  /\ (pc = "call" ~> pc = "returned")

\* a call whose recursion went as deep as the board allows has returned
C16_Witness ==
  /\ pc = "returned"
  /\ depth = MaxFrameBlanks
  /\ evaluate(board) = 0
  /\ res.move \in 0 .. Cells - 1
  /\ stack = <<>>

\* C17: the Ai never loses: no reachable board of the driving loop has the
\* Human marks filling a row, a column or a diagonal, the game never ends
\* with "HUMAN win.", and every game that ends ends with "AI win." or "Draw.".
C17_AiNeverLoses ==
  /\ ~HoldsLine(board, PLAYER)
  /\ out # "HUMAN win."
  /\ pc = "exit" => out \in {"AI win.", "Draw."}

\* the pass of main's loop that is due is the Ai's
AiToMove == pc = "turn" /\ (firstMover + i) % 2 # 1

\* C18: whenever the driving loop calls minimax for the Ai's turn, the move
\* returned is the index (0..8) of a cell that is empty on the current board
\* and the payoff is -1, 0 or +1: board[aiMove] = AI is in range and takes an
\* empty cell.
C18_AiMoveIsEmptyCell ==
  [][AiToMove =>
       /\ res'.move \in 0 .. Cells - 1
       /\ board[res'.move] = EMPTY
       /\ res'.payoff \in {-1, 0, 1}
       /\ board' = [board EXCEPT ![res'.move] = AI]
       /\ pc' # "panic"]_vars

\* the Ai has made its second move of a game it opened
C18_Witness ==
  /\ pc = "turn"
  /\ firstMover = 0
  /\ i = 3
  /\ NumEmpty(board) = 6
  /\ res.move \in 0 .. Cells - 1
  /\ board[res.move] = AI
  /\ res.payoff \in {-1, 0, 1}
  /\ variant = "plain"

\* C19: in game.go's minimax started with alpha = -2 and beta = +2 the guards
\* bestVal < branchVal and bestVal > branchVal, taken after the update of
\* bestVal, are never true: alpha and beta keep their initial values in every
\* frame, no break is reached (after every branch the frame goes on with its
\* next cell, exactly as part_000's frame does, so the two explore the same
\* positions), and the two files return the same move and the same payoff.
C19_GuardsNeverTrue ==
  /\ [](\A k \in 1 .. Len(stack) :
          stack[k].alpha = -INF /\ stack[k].beta = INF)
  /\ [][ReturningToCaller =>
          LET f == stack[Len(stack) - 1]
              branchVal == stack[Len(stack)].ret.payoff
              g == stack'[Len(stack')]
          IN /\ ~(f.p = AI /\ max(branchVal, f.bestVal) < branchVal)
             /\ ~(f.p # AI /\ min(branchVal, f.bestVal) > branchVal)
             /\ g.at = "loop"
             /\ g.c = f.c + 1
             /\ g = AfterBranch("plain", f, branchVal)]_vars
  /\ [](pc = "returned" =>
          /\ res = minimaxPlain(board, player, depth)
          /\ res = minimax(board, depth, -INF, INF, player))

\* a maximizer frame of game.go holds bestVal = +1 under a minimizer frame
\* that holds bestVal = 0, and goes on to its next cell with alpha still -2
\* and beta still +2
C19_Witness ==
  /\ pc = "run"
  /\ variant = "alphabeta"
  /\ Len(stack) = 2
  /\ stack[1].p = PLAYER
  /\ stack[1].bestVal = 0
  /\ stack[2].p = AI
  /\ stack[2].at = "loop"
  /\ stack[2].bestVal = 1
  /\ NextEmpty(stack[2].b, stack[2].c) <= Cells - 1
  /\ stack[2].alpha = -INF
  /\ stack[2].beta = INF

====
